---- MODULE Spec2Model ----
(***************************************************************************)
(* Loan platform backend (backend/app/main.py, models.py, schemas.py):     *)
(* users, loan applications and support tickets, the request handlers that *)
(* change them, and least-loaded ticket assignment.                        *)
(*                                                                         *)
(* The database tables are sequences; a row's id is its index (integer     *)
(* autoincrement primary keys, rows are never deleted).  `call` records    *)
(* the most recent request and its HTTP response.  `inflight` holds the    *)
(* ticket-creating requests that have read the admin loads but have not    *)
(* committed yet (used by SpecRace only).                                  *)
(*                                                                         *)
(* Not modelled: the traffic-event middleware and analytics, the static    *)
(* public endpoints, EMI calculation, the uploaded bytes on disk, and the  *)
(* free-text columns no handler reads (message, loan_type, amount,         *)
(* purpose, created_at).                                                   *)
(***************************************************************************)
EXTENDS Integers, Sequences, FiniteSets

VARIABLES users, applications, tickets, started, inflight, call

vars == <<users, applications, tickets, started, inflight, call>>

(* ------------------------------ bounds -------------------------------- *)
MaxUsers == 3
MaxApps == 1
MaxTickets == 2
MaxInflight == 2

(* ----------------------------- constants ------------------------------ *)
\* assigned_admin_id is nullable; get_least_loaded_admin_id returns None.
None == 0

AdminRoles == {"admin", "super_admin"}
AppStatusesAnyCase == {"Approved", "Rejected", "Pending", "approved"}
\* update_application_status: payload.status not in {...} is refused
AppStatuses == {"Approved", "Rejected", "Pending"}
TicketStatusesWithClosed == {"open", "in_progress", "resolved", "closed"}
\* update_ticket_status: payload.status not in {...} is refused
TicketStatuses == {"open", "in_progress", "resolved"}
OpenStatuses == {"open", "in_progress"}

\* Emails are sequences of one-character strings.
AdminEmail ==
  <<"a","d","m","i","n","@","i","n","c","r","e","d",".","l","o","c","a","l">>
SuperAdminEmail ==
  <<"s","u","p","e","r","a","d","m","i","n","@","i","n","c","r","e","d",".","l","o","c","a","l">>

(* --------------------------- request inputs --------------------------- *)
RegisterEmails ==
  { <<"c","@","x">>, <<"C","@","X">>, <<"d","@","x">>,
    <<"A","d","m","i","n","@","i","n","c","r","e","d",".","l","o","c","a","l">> }
Passwords == {"secret1"}
LoginPasswords == {"secret1", "admin123", "wrong"}
AppStatusInputs == {"Pending", "Approved", "Rejected", "approved"}
TicketStatusInputs == {"open", "in_progress", "resolved", "closed"}
\* (requires_additional_docs, required_docs_note) of UpdateStatusRequest
DocsRequests == { <<FALSE, "">>, <<TRUE, "send payslip">> }
UploadNames == {"pay/slip.pdf"}
ApplicationFiles == <<"id.pdf", "income.pdf", "addr\\proof.pdf">>

(* ------------------------------ helpers ------------------------------- *)
UpperAlpha ==
  <<"A","B","C","D","E","F","G","H","I","J","K","L","M",
    "N","O","P","Q","R","S","T","U","V","W","X","Y","Z">>
LowerAlpha ==
  <<"a","b","c","d","e","f","g","h","i","j","k","l","m",
    "n","o","p","q","r","s","t","u","v","w","x","y","z">>

LowerChar(c) ==
  IF \E i \in DOMAIN UpperAlpha : UpperAlpha[i] = c
  THEN LowerAlpha[CHOOSE i \in DOMAIN UpperAlpha : UpperAlpha[i] = c]
  ELSE c

\* str.lower()
Lower(s) == [i \in DOMAIN s |-> LowerChar(s[i])]

\* auth.hash_password / auth.verify_password: opaque capability
hash_password(p) == <<"hash", p>>
verify_password(p, h) == h = hash_password(p)

\* db.query(User).filter(User.email == e).first(): the row id, or None
UserByEmail(e) ==
  IF \E i \in DOMAIN users : users[i].email = e
  THEN CHOOSE i \in DOMAIN users :
         users[i].email = e /\ \A j \in DOMAIN users : users[j].email = e => i <= j
  ELSE None

\* (f.filename or "<default>").replace("/", "_").replace("\\", "_")
CleanName(filename, default) ==
  CASE filename = "" -> default
    [] filename = "pay/slip.pdf" -> "pay_slip.pdf"
    [] filename = "addr\\proof.pdf" -> "addr_proof.pdf"
    [] OTHER -> filename

NoStats == [total |-> 0, approved |-> 0, rejected |-> 0, pending |-> 0]

\* the request that ran last (its handler), the HTTP status code of its
\* response and the id the response carries
Response(op, code, out) ==
  [op |-> op, code |-> code, out |-> out, enum |-> <<>>, stats |-> NoStats]

(* ------------------------- ticket assignment -------------------------- *)
AdminIds(us) == {i \in DOMAIN us : us[i].role \in AdminRoles}

Orderings(S) ==
  {f \in [1..Cardinality(S) -> S] : \A i, j \in DOMAIN f : i # j => f[i] # f[j]}

\* db.query(User).filter(User.role.in_([...])).all(): no ORDER BY, so the
\* row order is whatever the database yields.
AdminEnumerations(us) == Orderings(AdminIds(us))

TicketCountAnyStatus(tks, a) ==
  Cardinality({i \in DOMAIN tks : tks[i].assigned_admin_id = a})

\* the per-admin count query: assigned to a, status open or in_progress
TicketCount(tks, a) ==
  Cardinality({i \in DOMAIN tks :
                 tks[i].assigned_admin_id = a /\ tks[i].status \in OpenStatuses})

RECURSIVE MinScanKeepLast(_, _, _, _)
MinScanKeepLast(admins, tks, i, best) ==
  IF i > Len(admins) THEN best
  ELSE MinScanKeepLast(admins, tks, i + 1,
               IF TicketCount(tks, admins[i]) <= TicketCount(tks, best)
               THEN admins[i] ELSE best)

\* min(ticket_counts, key=ticket_counts.get): scan in dict (insertion)
\* order, keep the first key with the smallest value
RECURSIVE MinScan(_, _, _, _)
MinScan(admins, tks, i, best) ==
  IF i > Len(admins) THEN best
  ELSE MinScan(admins, tks, i + 1,
               IF TicketCount(tks, admins[i]) < TicketCount(tks, best)
               THEN admins[i] ELSE best)

first_admin_id(admins, tks) ==
  IF admins = <<>> THEN None ELSE admins[1]

get_least_loaded_admin_id(admins, tks) ==
  IF admins = <<>> THEN None
  ELSE MinScan(admins, tks, 2, admins[1])

SystemTicketUnassigned(owner_id, assigned) ==
  [owner_id |-> owner_id, created_by |-> "system",
   assigned_admin_id |-> None, priority |-> "medium", status |-> "open"]

\* create_system_ticket: the Ticket row it adds
SystemTicket(owner_id, assigned) ==
  [owner_id |-> owner_id, created_by |-> "system",
   assigned_admin_id |-> assigned, priority |-> "medium", status |-> "open"]

(* ------------------------------- Init --------------------------------- *)
\* a request slot with no request in it
Idle == [pc |-> "idle", op |-> "", user |-> None, assigned_admin_id |-> None]

Init ==
  /\ users = <<>>
  /\ applications = <<>>
  /\ tickets = <<>>
  /\ started = FALSE
  /\ inflight = [r \in 1..MaxInflight |-> Idle]
  /\ call = Response("import", 0, None)

(* ------------------------------ startup ------------------------------- *)
PlatformAdmin ==
  [name |-> "Platform Admin", email |-> AdminEmail,
   password_hash |-> hash_password("admin123"), role |-> "admin"]
SuperAdmin ==
  [name |-> "Super Admin", email |-> SuperAdminEmail,
   password_hash |-> hash_password("superadmin123"), role |-> "super_admin"]

startup_setup ==
  /\ ~started
  /\ LET u1 == IF UserByEmail(AdminEmail) = None
               THEN Append(users, PlatformAdmin) ELSE users
         u2 == IF \E i \in DOMAIN u1 : u1[i].email = SuperAdminEmail
               THEN u1 ELSE Append(u1, SuperAdmin)
     IN users' = u2
  /\ started' = TRUE
  /\ call' = Response("startup_setup", 0, None)
  /\ UNCHANGED <<applications, tickets, inflight>>

(* ------------------------------ identity ------------------------------ *)
\* Depends(get_current_user): a request without a valid bearer token is
\* answered 401 before any handler runs; otherwise the handler gets the
\* user row (here its id) the token names.
get_current_user ==
  /\ started
  /\ call' = Response("get_current_user", 401, None)
  /\ UNCHANGED <<users, applications, tickets, started, inflight>>

Tokens == 1..Len(users)

require_admin_any_user(s) == TRUE

\* Depends(require_admin): passes for the roles admin and super_admin
require_admin(s) == users[s].role \in AdminRoles

ClientWithAdminRole(email, password) ==
  [name |-> "Client", email |-> Lower(email),
   password_hash |-> hash_password(password), role |-> "admin"]

\* the row register adds
Client(email, password) ==
  [name |-> "Client", email |-> Lower(email),
   password_hash |-> hash_password(password), role |-> "client"]

register_exact_lookup(email, password) ==
  /\ started
  /\ LET exists == UserByEmail(email)
         user == Client(email, password)
     IN IF exists # None
        THEN /\ call' = Response("register", 400, None)
             /\ UNCHANGED users
        ELSE /\ users' = Append(users, user)
             /\ call' = Response("register", 200, Len(users) + 1)
  /\ UNCHANGED <<applications, tickets, started, inflight>>

register(email, password) ==
  /\ started
  /\ LET exists == UserByEmail(Lower(email))
         user == Client(email, password)
     IN IF exists # None
        THEN /\ call' = Response("register", 400, None)
             /\ UNCHANGED users
        ELSE /\ users' = Append(users, user)
             /\ call' = Response("register", 200, Len(users) + 1)
  /\ UNCHANGED <<applications, tickets, started, inflight>>

login(email, password) ==
  /\ started
  /\ LET user == UserByEmail(Lower(email))
     IN IF user = None \/ ~verify_password(password, users[user].password_hash)
        THEN call' = Response("login", 401, None)
        ELSE call' = Response("login", 200, user)
  /\ UNCHANGED <<users, applications, tickets, started, inflight>>

me(s) ==
  /\ started
  /\ call' = Response("me", 200, s)
  /\ UNCHANGED <<users, applications, tickets, started, inflight>>

(* ---------------------------- applications ---------------------------- *)
\* json.dumps / json.loads of a list of strings
json_dumps(l) == [json |-> l]
json_loads(t) == t.json

app_row_submitted(s) ==
  LET stored_names == [i \in 1..3 |-> <<s, CleanName(ApplicationFiles[i], "file")>>]
  IN [client_id |-> s,
      documents |-> json_dumps(stored_names),
      additional_documents |-> json_dumps(<<>>),
      status |-> "Submitted",
      admin_note |-> <<>>,
      requires_additional_docs |-> "false",
      required_docs_note |-> ""]

\* the LoanApplication row create_application adds for client s
app_row(s) ==
  LET stored_names == [i \in 1..3 |-> <<s, CleanName(ApplicationFiles[i], "file")>>]
  IN [client_id |-> s,
      documents |-> json_dumps(stored_names),
      additional_documents |-> json_dumps(<<>>),
      status |-> "Pending",
      admin_note |-> <<>>,
      requires_additional_docs |-> "false",
      required_docs_note |-> ""]

create_application(s) ==
  /\ started
  /\ IF users[s].role # "client"
     THEN /\ call' = Response("create_application", 403, None)
          /\ UNCHANGED <<applications, tickets>>
     ELSE /\ applications' = Append(applications, app_row(s))
          /\ \E admins \in AdminEnumerations(users) :
               tickets' = Append(tickets,
                 SystemTicket(s, get_least_loaded_admin_id(admins, tickets)))
          /\ call' = Response("create_application", 200, Len(applications) + 1)
  /\ UNCHANGED <<users, started, inflight>>

OwnedByAnyClient(row, s) == users[s].role = "client"

\* row.client_id != user.id is refused
OwnedBy(row, s) == row.client_id = s

WithAdditionalDocumentKeepingNote(row, filename) ==
  [row EXCEPT !.additional_documents =
                 json_dumps(Append(json_loads(row.additional_documents), filename)),
              !.requires_additional_docs = "false"]

\* the row after the upload: the name appended, the request for documents
\* cleared
WithAdditionalDocument(row, filename) ==
  [row EXCEPT !.additional_documents =
                 json_dumps(Append(json_loads(row.additional_documents), filename)),
              !.requires_additional_docs = "false",
              !.required_docs_note = ""]

upload_additional_documents(s, application_id, filename) ==
  /\ started
  /\ IF application_id \notin DOMAIN applications
     THEN /\ call' = Response("upload_additional_documents", 404, None)
          /\ UNCHANGED <<applications, tickets>>
     ELSE IF ~OwnedBy(applications[application_id], s)
     THEN /\ call' = Response("upload_additional_documents", 403, None)
          /\ UNCHANGED <<applications, tickets>>
     ELSE /\ applications' =
               [applications EXCEPT ![application_id] =
                  WithAdditionalDocument(@, <<s, "extra",
                                              CleanName(filename, "additional_file")>>)]
          /\ \E admins \in AdminEnumerations(users) :
               tickets' = Append(tickets,
                 SystemTicket(s, get_least_loaded_admin_id(admins, tickets)))
          /\ call' = Response("upload_additional_documents", 200, application_id)
  /\ UNCHANGED <<users, started, inflight>>

update_application_status(s, application_id, status, docs) ==
  /\ started
  /\ IF ~require_admin(s)
     THEN /\ call' = Response("update_application_status", 403, None)
          /\ UNCHANGED <<applications, tickets>>
     ELSE IF status \notin AppStatuses
     THEN /\ call' = Response("update_application_status", 400, None)
          /\ UNCHANGED <<applications, tickets>>
     ELSE IF application_id \notin DOMAIN applications
     THEN /\ call' = Response("update_application_status", 404, None)
          /\ UNCHANGED <<applications, tickets>>
     ELSE /\ call' = Response("update_application_status", 200, application_id)
          /\ LET row == applications[application_id]
             IN /\ applications' =
                     [applications EXCEPT ![application_id] =
                        [row EXCEPT !.status = status,
                                    !.admin_note = <<"updated by", users[s].name>>,
                                    !.requires_additional_docs =
                                       IF docs[1] THEN "true" ELSE "false",
                                    !.required_docs_note = docs[2]]]
                /\ \E admins \in AdminEnumerations(users) :
                     tickets' = Append(tickets,
                       SystemTicket(row.client_id, get_least_loaded_admin_id(admins, tickets)))
  /\ UNCHANGED <<users, started, inflight>>

my_applications(s) ==
  /\ started
  /\ call' = Response("my_applications", 200,
       Cardinality({i \in DOMAIN applications : applications[i].client_id = s}))
  /\ UNCHANGED <<users, applications, tickets, started, inflight>>

all_applications(s) ==
  /\ started
  /\ call' = Response("all_applications",
       IF ~require_admin(s) THEN 403 ELSE 200,
       IF require_admin(s) THEN Len(applications) ELSE 0)
  /\ UNCHANGED <<users, applications, tickets, started, inflight>>

(* ------------------------------ tickets ------------------------------- *)
\* the Ticket row create_ticket adds for user s
ticket(s, assigned_admin_id) ==
  [owner_id |-> s, created_by |-> users[s].role,
   assigned_admin_id |-> assigned_admin_id, priority |-> "high", status |-> "open"]

create_ticket(s) ==
  /\ started
  /\ \E admins \in AdminEnumerations(users) :
       tickets' = Append(tickets,
                         ticket(s, get_least_loaded_admin_id(admins, tickets)))
  /\ call' = Response("create_ticket", 200, Len(tickets) + 1)
  /\ UNCHANGED <<users, applications, started, inflight>>

update_ticket_status(s, ticket_id, status) ==
  /\ started
  /\ IF ~require_admin(s)
     THEN /\ call' = Response("update_ticket_status", 403, None)
          /\ UNCHANGED tickets
     ELSE IF status \notin TicketStatuses
     THEN /\ call' = Response("update_ticket_status", 400, None)
          /\ UNCHANGED tickets
     ELSE IF ticket_id \notin DOMAIN tickets
     THEN /\ call' = Response("update_ticket_status", 404, None)
          /\ UNCHANGED tickets
     ELSE /\ tickets' = [tickets EXCEPT ![ticket_id].status = status]
          /\ call' = Response("update_ticket_status", 200, ticket_id)
  /\ UNCHANGED <<users, applications, started, inflight>>

my_tickets(s) ==
  /\ started
  /\ call' = Response("my_tickets", 200,
       Cardinality({i \in DOMAIN tickets : tickets[i].owner_id = s}))
  /\ UNCHANGED <<users, applications, tickets, started, inflight>>

all_tickets(s) ==
  /\ started
  /\ call' = Response("all_tickets",
       IF ~require_admin(s) THEN 403 ELSE 200,
       IF require_admin(s) THEN Len(tickets) ELSE 0)
  /\ UNCHANGED <<users, applications, tickets, started, inflight>>

(* ---------------------------- public stats ---------------------------- *)
\* db.query(func.count(LoanApplication.id)).filter(status == st).scalar() or 0
RECURSIVE CountStatus(_, _)
CountStatus(apps, st) ==
  IF apps = <<>> THEN 0
  ELSE (IF Head(apps).status = st THEN 1 ELSE 0) + CountStatus(Tail(apps), st)

Max(a, b) == IF a >= b THEN a ELSE b

PublicStatsIgnoringRejected(apps) ==
  LET total == Len(apps)
      approved == CountStatus(apps, "Approved")
      rejected == CountStatus(apps, "Rejected")
  IN [total |-> total, approved |-> approved, rejected |-> rejected,
      pending |-> Max(total - approved, 0)]

PublicStats(apps) ==
  LET total == Len(apps)
      approved == CountStatus(apps, "Approved")
      rejected == CountStatus(apps, "Rejected")
  IN [total |-> total, approved |-> approved, rejected |-> rejected,
      pending |-> Max(total - approved - rejected, 0)]

public_stats ==
  /\ started
  /\ call' = [Response("public_stats", 200, None)
                EXCEPT !.stats = PublicStats(applications)]
  /\ UNCHANGED <<users, applications, tickets, started, inflight>>

(* -------------------------------- Next -------------------------------- *)
ApplicationIds == 1..(Len(applications) + 1)
TicketIds == 1..(Len(tickets) + 1)

\* the tables stay within the bounds
UsersWithin(n) == Len(users') <= n
TablesWithin(maxApps, maxTickets) ==
  Len(applications') <= maxApps /\ Len(tickets') <= maxTickets

Next ==
  \/ startup_setup
  \/ get_current_user
  \/ \E e \in RegisterEmails, p \in Passwords : register(e, p) /\ UsersWithin(MaxUsers)
  \/ \E e \in RegisterEmails, p \in LoginPasswords : login(e, p)
  \/ \E s \in Tokens : me(s)
  \/ \E s \in Tokens : create_application(s) /\ TablesWithin(MaxApps, MaxTickets)
  \/ \E s \in Tokens, a \in ApplicationIds, f \in UploadNames :
       upload_additional_documents(s, a, f) /\ TablesWithin(MaxApps, MaxTickets)
  \/ \E s \in Tokens, a \in ApplicationIds, st \in AppStatusInputs, d \in DocsRequests :
       update_application_status(s, a, st, d) /\ TablesWithin(MaxApps, MaxTickets)
  \/ \E s \in Tokens : my_applications(s)
  \/ \E s \in Tokens : all_applications(s)
  \/ \E s \in Tokens : create_ticket(s) /\ TablesWithin(MaxApps, MaxTickets)
  \/ \E s \in Tokens, t \in TicketIds, st \in TicketStatusInputs :
       update_ticket_status(s, t, st)
  \/ \E s \in Tokens : my_tickets(s)
  \/ \E s \in Tokens : all_tickets(s)
  \/ public_stats

Spec == Init /\ [][Next]_vars

(* ----------------------- application workflow ------------------------- *)
\* The handlers that work on an existing application, from the database
\* after startup, the registration of two clients and one client's
\* application (its ticket assigned to either admin: both have no ticket
\* before it).
AppMaxTickets == 3

InitApp ==
  /\ users = <<PlatformAdmin, SuperAdmin,
               Client(<<"c","@","x">>, "secret1"), Client(<<"d","@","x">>, "secret1")>>
  /\ \E s \in {3, 4} :
       /\ applications = <<app_row(s)>>
       /\ \E admins \in AdminEnumerations(users) :
            tickets = <<SystemTicket(s, get_least_loaded_admin_id(admins, <<>>))>>
  /\ started = TRUE
  /\ inflight = [r \in 1..MaxInflight |-> Idle]
  /\ call = Response("create_application", 200, 1)

NextApp ==
  \/ \E s \in Tokens, a \in ApplicationIds, f \in UploadNames :
       upload_additional_documents(s, a, f) /\ Len(tickets') <= AppMaxTickets
  \/ \E s \in Tokens, a \in ApplicationIds, st \in AppStatusInputs, d \in DocsRequests :
       update_application_status(s, a, st, d) /\ Len(tickets') <= AppMaxTickets

SpecApp == InitApp /\ [][NextApp]_vars

(* --------------------------- public statistics ------------------------ *)
\* Creations, status updates, uploads and the statistics read, from the
\* database after startup and the registration of one client.
StatsMaxApps == 2
StatsMaxTickets == 3

InitStats ==
  /\ users = <<PlatformAdmin, SuperAdmin, Client(<<"c","@","x">>, "secret1")>>
  /\ applications = <<>>
  /\ tickets = <<>>
  /\ started = TRUE
  /\ inflight = [r \in 1..MaxInflight |-> Idle]
  /\ call = Response("register", 200, 3)

NextStats ==
  \/ \E s \in Tokens : create_application(s) /\ TablesWithin(StatsMaxApps, StatsMaxTickets)
  \/ \E s \in Tokens, a \in ApplicationIds, f \in UploadNames :
       upload_additional_documents(s, a, f) /\ TablesWithin(StatsMaxApps, StatsMaxTickets)
  \/ \E s \in Tokens, a \in ApplicationIds, st \in AppStatusInputs, d \in DocsRequests :
       update_application_status(s, a, st, d) /\ TablesWithin(StatsMaxApps, StatsMaxTickets)
  \/ public_stats

SpecStats == InitStats /\ [][NextStats]_vars

(* ------------------------- sequential creation ------------------------ *)
\* The four ticket-creating handlers, one request at a time and without
\* update_ticket_status, from the database after startup and the
\* registration of one client: no ticket yet, the two seeded admins.
BalanceMaxApps == 1
BalanceMaxTickets == 3

InitBalance ==
  /\ users = <<PlatformAdmin, SuperAdmin, Client(<<"c","@","x">>, "secret1")>>
  /\ applications = <<>>
  /\ tickets = <<>>
  /\ started = TRUE
  /\ inflight = [r \in 1..MaxInflight |-> Idle]
  /\ call = Response("register", 200, 3)

NextBalance ==
  \/ \E s \in Tokens :
       create_ticket(s) /\ TablesWithin(BalanceMaxApps, BalanceMaxTickets)
  \/ \E s \in Tokens :
       create_application(s) /\ TablesWithin(BalanceMaxApps, BalanceMaxTickets)
  \/ \E s \in Tokens, a \in ApplicationIds, st \in AppStatusInputs, d \in DocsRequests :
       update_application_status(s, a, st, d)
         /\ TablesWithin(BalanceMaxApps, BalanceMaxTickets)
  \/ \E s \in Tokens, a \in ApplicationIds, f \in UploadNames :
       upload_additional_documents(s, a, f)
         /\ TablesWithin(BalanceMaxApps, BalanceMaxTickets)

SpecBalance == InitBalance /\ [][NextBalance]_vars

(* ------------------------- assignment alone --------------------------- *)
\* get_least_loaded_admin_id applied to a users table and a tickets table
\* drawn from bounded sets: any roles, any status, any assignment to an
\* admin-role user (to nobody where there is none: no handler changes a
\* role, so a ticket is unassigned only in a database without admins).
AssignMaxUsers == 2
AssignMaxTickets == 2

Digits == <<"1", "2", "3", "4", "5", "6", "7", "8", "9">>

UsersWithRoles(roles) ==
  [i \in DOMAIN roles |->
     [name |-> "User", email |-> <<"u", Digits[i], "@", "x">>,
      password_hash |-> hash_password("secret1"), role |-> roles[i]]]

SeqsUpTo(S, n) == UNION {[1..k -> S] : k \in 0..n}

TicketRows(us) ==
  IF us = <<>> THEN {}
  ELSE [owner_id : {1}, created_by : {"system"},
        assigned_admin_id : IF AdminIds(us) = {} THEN {None} ELSE AdminIds(us),
        priority : {"medium"}, status : TicketStatuses]

InitAssign ==
  /\ users \in {UsersWithRoles(r) :
                  r \in SeqsUpTo({"client", "admin", "super_admin"}, AssignMaxUsers)}
  /\ tickets \in SeqsUpTo(TicketRows(users), AssignMaxTickets)
  /\ applications = <<>>
  /\ started = TRUE
  /\ inflight = [r \in 1..MaxInflight |-> Idle]
  /\ call = Response("import", 0, None)

\* one call: the admins as the query enumerates them, and the id returned
least_loaded_admin ==
  /\ \E admins \in AdminEnumerations(users) :
       call' = [Response("get_least_loaded_admin_id", 0,
                         get_least_loaded_admin_id(admins, tickets))
                  EXCEPT !.enum = admins]
  /\ UNCHANGED <<users, applications, tickets, started, inflight>>

NextAssign == least_loaded_admin

SpecAssign == InitAssign /\ [][NextAssign]_vars

(* ------------------------------ users --------------------------------- *)
\* Startup, registration and login alone, with more addresses and passwords.
UsersMaxUsers == 4
UserEmails == RegisterEmails \cup { <<"e","@","x">> }
RegisterPasswords == {"secret1", "admin123"}

NextUsers ==
  \/ startup_setup
  \/ \E e \in UserEmails, p \in RegisterPasswords :
       register(e, p) /\ UsersWithin(UsersMaxUsers)
  \/ \E e \in UserEmails, p \in LoginPasswords : login(e, p)

SpecUsers == Init /\ [][NextUsers]_vars

(* ---------------------- concurrent ticket creation -------------------- *)
\* Handlers run in worker threads, each with its own session: a handler's
\* queries see what was committed before they ran, and its rows reach the
\* tables at db.commit().  A ticket-creating request is in flight between
\* its count queries (get_least_loaded_admin_id) and its commit; no lock is
\* taken in between.
RaceMaxTickets == 3

InFlight == {r \in DOMAIN inflight : inflight[r].pc = "read"}

create_ticket_read(r, s) ==
  /\ started
  /\ inflight[r].pc = "idle"
  /\ \E admins \in AdminEnumerations(users) :
       inflight' = [inflight EXCEPT ![r] =
                      [pc |-> "read", op |-> "create_ticket", user |-> s,
                       assigned_admin_id |-> get_least_loaded_admin_id(admins, tickets)]]
  /\ UNCHANGED <<users, applications, tickets, started, call>>

create_ticket_commit_rereading(r) ==
  /\ inflight[r].pc = "read"
  /\ inflight[r].op = "create_ticket"
  /\ \E admins \in AdminEnumerations(users) :
       tickets' = Append(tickets, ticket(inflight[r].user,
                                         get_least_loaded_admin_id(admins, tickets)))
  /\ call' = Response("create_ticket", 200, Len(tickets) + 1)
  /\ inflight' = [inflight EXCEPT ![r] = Idle]
  /\ UNCHANGED <<users, applications, started>>

create_ticket_commit(r) ==
  /\ inflight[r].pc = "read"
  /\ inflight[r].op = "create_ticket"
  /\ tickets' = Append(tickets, ticket(inflight[r].user, inflight[r].assigned_admin_id))
  /\ call' = Response("create_ticket", 200, Len(tickets) + 1)
  /\ inflight' = [inflight EXCEPT ![r] = Idle]
  /\ UNCHANGED <<users, applications, started>>

create_application_read(r, s) ==
  /\ started
  /\ inflight[r].pc = "idle"
  /\ IF users[s].role # "client"
     THEN /\ call' = Response("create_application", 403, None)
          /\ UNCHANGED inflight
     ELSE /\ \E admins \in AdminEnumerations(users) :
               inflight' = [inflight EXCEPT ![r] =
                   [pc |-> "read", op |-> "create_application", user |-> s,
                    assigned_admin_id |-> get_least_loaded_admin_id(admins, tickets)]]
          /\ UNCHANGED call
  /\ UNCHANGED <<users, applications, tickets, started>>

create_application_commit(r) ==
  /\ inflight[r].pc = "read"
  /\ inflight[r].op = "create_application"
  /\ applications' = Append(applications, app_row(inflight[r].user))
  /\ tickets' = Append(tickets,
                       SystemTicket(inflight[r].user, inflight[r].assigned_admin_id))
  /\ call' = Response("create_application", 200, Len(applications) + 1)
  /\ inflight' = [inflight EXCEPT ![r] = Idle]
  /\ UNCHANGED <<users, started>>

InitRace ==
  /\ users = <<PlatformAdmin, SuperAdmin, Client(<<"c","@","x">>, "secret1")>>
  /\ applications = <<>>
  /\ tickets = <<>>
  /\ started = TRUE
  /\ inflight = [r \in 1..MaxInflight |-> Idle]
  /\ call = Response("register", 200, 3)

\* a request is admitted while the tickets committed and in flight leave room
NextRace ==
  \/ \E r \in DOMAIN inflight, s \in Tokens :
       /\ Len(tickets) + Cardinality(InFlight) < RaceMaxTickets
       /\ create_ticket_read(r, s)
  \/ \E r \in DOMAIN inflight : create_ticket_commit(r)
  \/ \E r \in DOMAIN inflight, s \in Tokens :
       /\ Len(tickets) + Cardinality(InFlight) < RaceMaxTickets
       /\ create_application_read(r, s)
  \/ \E r \in DOMAIN inflight : create_application_commit(r)

SpecRace == InitRace /\ [][NextRace]_vars

(* ======================= properties: applications ===================== *)
\* the rows of a table other than the last one
Front(seq) == SubSeq(seq, 1, Len(seq) - 1)
Last(seq) == seq[Len(seq)]

\* a is an admin-role user none of whose peers has fewer open or
\* in_progress tickets in tks (None when there is no admin-role user)
IsAdmin(us, a) == a \in DOMAIN us /\ us[a].role \in {"admin", "super_admin"}

Load(tks, a) ==
  Cardinality({i \in DOMAIN tks : /\ tks[i].assigned_admin_id = a
                                  /\ tks[i].status # "resolved"})

IsLeastLoaded(a, us, tks) ==
  IF \A b \in DOMAIN us : ~IsAdmin(us, b) THEN a = None
  ELSE /\ IsAdmin(us, a)
       /\ \A b \in DOMAIN us : IsAdmin(us, b) => Load(tks, a) <= Load(tks, b)

\* C2: every update_application_status call by an admin on an existing
\* application with a target in {Pending, Approved, Rejected} succeeds, sets
\* the status to the target (also when it equals the current status) and in
\* the same step appends exactly one ticket: created_by system, status open,
\* owner the application's client, assigned to a least-loaded admin.
C2_StatusUpdateCreatesTicket ==
  [][call'.op = "update_application_status" =>
     \A s \in {u \in Tokens : IsAdmin(users, u)},
        a \in DOMAIN applications,
        st \in {"Pending", "Approved", "Rejected"},
        d \in DocsRequests :
       update_application_status(s, a, st, d)
       => /\ call'.code = 200
          /\ applications'[a].status = st
          /\ Len(tickets') = Len(tickets) + 1
          /\ Front(tickets') = tickets
          /\ Last(tickets').created_by = "system"
          /\ Last(tickets').status = "open"
          /\ Last(tickets').owner_id = applications[a].client_id
          /\ IsLeastLoaded(Last(tickets').assigned_admin_id, users, tickets)
    ]_vars

\* the only application was created and then set to Pending again: the
\* second ticket comes from a status update that changed no status
C2_Witness ==
  /\ call.op = "update_application_status" /\ call.code = 200
  /\ Len(applications) = 1 /\ applications[1].status = "Pending"
  /\ Len(tickets) = 2
  /\ tickets[2].created_by = "system" /\ tickets[2].owner_id = applications[1].client_id
  /\ tickets[2].assigned_admin_id # tickets[1].assigned_admin_id

\* C3: a successful upload_additional_documents call by the owner, on an
\* application in any status, keeps documents (3 entries) and status, appends
\* one entry to additional_documents and leaves requires_additional_docs
\* false and required_docs_note empty.
C3_UploadAppendsAndClears ==
  [][call'.op = "upload_additional_documents" =>
     \A s \in Tokens, a \in ApplicationIds, f \in UploadNames :
       ( /\ a \in DOMAIN applications
         /\ applications[a].client_id = s
         /\ upload_additional_documents(s, a, f) )
       => /\ call'.code = 200
          /\ applications'[a].documents = applications[a].documents
          /\ Len(json_loads(applications'[a].documents)) = 3
          /\ applications'[a].status = applications[a].status
          /\ Len(json_loads(applications'[a].additional_documents))
               = Len(json_loads(applications[a].additional_documents)) + 1
          /\ Front(json_loads(applications'[a].additional_documents))
               = json_loads(applications[a].additional_documents)
          /\ applications'[a].requires_additional_docs = "false"
          /\ applications'[a].required_docs_note = ""
    ]_vars

\* an upload was the last call, on an application an admin had approved
\* before; it holds one additional document beside its three documents
C3_Witness ==
  /\ call.op = "upload_additional_documents" /\ call.code = 200
  /\ \E a \in DOMAIN applications :
       /\ call.out = a
       /\ applications[a].status = "Approved"
       /\ Len(json_loads(applications[a].additional_documents)) = 1
       /\ Len(json_loads(applications[a].documents)) = 3
       /\ applications[a].requires_additional_docs = "false"

\* C4: upload_additional_documents on an existing application by any user
\* who is not its owner is answered 403 and changes no application and no
\* ticket.
C4_NonOwnerUploadRejected ==
  [][call'.op = "upload_additional_documents" =>
     \A s \in Tokens, a \in ApplicationIds, f \in UploadNames :
       ( /\ a \in DOMAIN applications
         /\ applications[a].client_id # s
         /\ upload_additional_documents(s, a, f) )
       => /\ call'.code = 403
          /\ applications' = applications
          /\ tickets' = tickets
    ]_vars

\* an upload was refused while an application exists and no application has
\* an additional document
C4_Witness ==
  /\ call.op = "upload_additional_documents" /\ call.code = 403
  /\ applications # <<>>
  /\ \A a \in DOMAIN applications :
       json_loads(applications[a].additional_documents) = <<>>

\* C5: public_stats reports pending = max(total - approved - rejected, 0)
\* over the applications as they are.
NumberWithStatus(st) ==
  Cardinality({a \in DOMAIN applications : applications[a].status = st})

C5_PendingFormula ==
  call.op = "public_stats" =>
    LET n == Cardinality(DOMAIN applications)
                - NumberWithStatus("Approved") - NumberWithStatus("Rejected")
    IN call.stats.pending = IF n > 0 THEN n ELSE 0

\* stats read with one application approved and one still pending
C5_Witness ==
  /\ call.op = "public_stats"
  /\ Len(applications) = 2
  /\ NumberWithStatus("Approved") = 1 /\ NumberWithStatus("Pending") = 1
  /\ call.stats.pending = 1

\* C7: update_application_status answers 403 to a caller who is no admin,
\* 400 to an admin giving a status outside the three, 404 to an admin giving
\* a valid status and an unknown application id; none of these changes an
\* application or creates a ticket.
C7_StatusUpdateFailures ==
  [][call'.op = "update_application_status" =>
     LET Valid == {"Pending", "Approved", "Rejected"}
         Admins == {u \in Tokens : IsAdmin(users, u)}
         \* the step answers code and leaves both tables as they were
         Refused(code) ==
           call'.code = code /\ applications' = applications /\ tickets' = tickets
     IN \* a call by a non-admin is refused with 403
        /\ \/ Refused(403)
           \/ ~ \E s \in Tokens \ Admins, a \in ApplicationIds,
                   st \in AppStatusInputs, d \in DocsRequests :
                  update_application_status(s, a, st, d)
        \* an admin's call with an invalid status is refused with 400
        /\ \/ Refused(400)
           \/ ~ \E s \in Admins, a \in ApplicationIds,
                   st \in AppStatusInputs \ Valid, d \in DocsRequests :
                  update_application_status(s, a, st, d)
        \* an admin's call with a valid status and an unknown id is refused
        \* with 404
        /\ \/ Refused(404)
           \/ ~ \E s \in Admins, a \in ApplicationIds \ DOMAIN applications,
                   st \in AppStatusInputs \cap Valid, d \in DocsRequests :
                  update_application_status(s, a, st, d)
    ]_vars

\* a status update was refused as invalid while a Pending application exists
C7_Witness ==
  /\ call.op = "update_application_status" /\ call.code = 400
  /\ \E a \in DOMAIN applications : applications[a].status = "Pending"

(* ======================= properties: assignment ======================= *)
\* C1: get_least_loaded_admin_id returns None exactly when no user has role
\* admin or super_admin; otherwise the id of such a user whose number of
\* assigned open or in_progress tickets is minimal among them, an admin
\* without such tickets counting 0 and resolved tickets not counting.
C1_LeastLoaded ==
  call.op = "get_least_loaded_admin_id" =>
    /\ call.out = None <=> (\A u \in DOMAIN users : ~IsAdmin(users, u))
    /\ IsLeastLoaded(call.out, users, tickets)

\* admin A holds two open tickets, admin B none, and B is returned
C1_Witness ==
  /\ call.op = "get_least_loaded_admin_id"
  /\ \E a, b \in DOMAIN users :
       /\ IsAdmin(users, a) /\ IsAdmin(users, b)
       /\ Len(tickets) = 2
       /\ \A t \in DOMAIN tickets :
            tickets[t].assigned_admin_id = a /\ tickets[t].status = "open"
       /\ Load(tickets, a) = 2 /\ Load(tickets, b) = 0
       /\ call.out = b

\* C10: among the admins with the minimal count the one enumerated first is
\* returned: every admin enumerated before it has a strictly larger count.
C10_FirstInEnumerationWins ==
  (call.op = "get_least_loaded_admin_id" /\ call.enum # <<>>) =>
    \E k \in DOMAIN call.enum :
      /\ call.out = call.enum[k]
      /\ \A j \in DOMAIN call.enum :
           /\ Load(tickets, call.enum[j]) >= Load(tickets, call.out)
           /\ j < k => Load(tickets, call.enum[j]) > Load(tickets, call.out)

\* two admins tie, a resolved ticket not counting; the one returned is
\* enumerated first although its id is the larger
C10_Witness ==
  /\ call.op = "get_least_loaded_admin_id"
  /\ Len(call.enum) = 2
  /\ \A j \in DOMAIN call.enum : Load(tickets, call.enum[j]) = Load(tickets, call.out)
  /\ \E t \in DOMAIN tickets : tickets[t].status = "resolved"
  /\ call.out = call.enum[1]
  /\ call.out > call.enum[2]

(* ========================= properties: users ========================== *)
SameEmail(e1, e2) == Lower(e1) = Lower(e2)

\* C6: a register call whose email equals, up to letter case, the email of
\* a user already registered is answered 400 and adds no user; and after
\* any step no two users have emails equal up to letter case.
C6_DuplicateEmailRejected ==
  [][/\ call'.op = "register" =>
          \A e \in UserEmails, p \in RegisterPasswords :
            ( /\ \E u \in DOMAIN users : SameEmail(users[u].email, e)
              /\ register(e, p) )
            => call'.code = 400 /\ users' = users
     /\ \A u, v \in DOMAIN users' :
          SameEmail(users'[u].email, users'[v].email) => u = v
    ]_vars

\* a registration was refused although the table has room, with a client
\* registered
C6_Witness ==
  /\ call.op = "register" /\ call.code = 400
  /\ Len(users) = 3 /\ users[3].role = "client"

(* ====================== properties: concurrency ======================= *)
\* C8: a ticket-creating request that commits does so successfully and with
\* the admin it selected when it read the counts, whatever was committed
\* since: no lock makes it wait, fail or select again.
C8_CommitKeepsStaleChoice ==
  [][\A r \in DOMAIN inflight :
       (inflight[r].pc = "read" /\ inflight'[r].pc = "idle")
       => /\ call'.code = 200
          /\ Len(tickets') = Len(tickets) + 1
          /\ Front(tickets') = tickets
          /\ Last(tickets').assigned_admin_id = inflight[r].assigned_admin_id
    ]_vars

\* two requests raced: both tickets are open and assigned to one admin while
\* the other admin has none, and nothing is in flight any more
C8_Witness ==
  /\ InFlight = {}
  /\ Len(tickets) = 2
  /\ tickets[1].status = "open" /\ tickets[2].status = "open"
  /\ tickets[1].assigned_admin_id = tickets[2].assigned_admin_id
  /\ \E a, b \in DOMAIN users :
       /\ IsAdmin(users, a) /\ IsAdmin(users, b)
       /\ Load(tickets, a) = 2 /\ Load(tickets, b) = 0

(* ========================== properties: frame ========================= *)
\* C9: no step removes an application or changes the client_id or the
\* documents of one; a step that changes an existing application at all is a
\* successful update_application_status call on it by an admin or
\* super_admin, or a successful upload_additional_documents call on it by
\* its owner.
C9_ApplicationsFrame ==
  [][/\ Len(applications') >= Len(applications)
     /\ \A i \in DOMAIN applications :
          /\ applications'[i].client_id = applications[i].client_id
          /\ applications'[i].documents = applications[i].documents
          /\ applications'[i] # applications[i] =>
               /\ call'.code = 200
               /\ \/ /\ call'.op = "update_application_status"
                     /\ \E s \in Tokens, st \in AppStatusInputs, d \in DocsRequests :
                          IsAdmin(users, s) /\ update_application_status(s, i, st, d)
                  \/ /\ call'.op = "upload_additional_documents"
                     /\ \E f \in UploadNames :
                          upload_additional_documents(applications[i].client_id, i, f)
    ]_vars

\* an admin has approved the application, and the call after that, a
\* successful ticket status update, left it as it was
C9_Witness ==
  /\ call.op = "update_ticket_status" /\ call.code = 200
  /\ Len(applications) = 1
  /\ applications[1].status = "Approved"
  /\ applications[1].admin_note # <<>>
  /\ \E t \in DOMAIN tickets : tickets[t].status = "resolved"

\* C11: no step removes a ticket or changes the assigned_admin_id, owner_id
\* or created_by of one; a step that changes an existing ticket is a
\* successful update_ticket_status call on it by an admin or super_admin
\* with a target in {open, in_progress, resolved}, and changes that ticket
\* alone. Such a call succeeds from every current status, sets the status
\* to the target and creates no ticket; a call by a non-admin (403), with a
\* status outside the three (400) or with an unknown id (404) changes
\* nothing.
C11_TicketsFrame ==
  [][LET Valid == {"open", "in_progress", "resolved"}
         Admins == {u \in Tokens : IsAdmin(users, u)}
         Refused(code) == call'.code = code /\ tickets' = tickets
     IN /\ Len(tickets') >= Len(tickets)
        /\ \A t \in DOMAIN tickets :
             /\ tickets'[t].assigned_admin_id = tickets[t].assigned_admin_id
             /\ tickets'[t].owner_id = tickets[t].owner_id
             /\ tickets'[t].created_by = tickets[t].created_by
             /\ tickets'[t] # tickets[t] =>
                  /\ call'.op = "update_ticket_status" /\ call'.code = 200
                  /\ tickets'[t].status \in Valid
                  /\ \E s \in Admins : update_ticket_status(s, t, tickets'[t].status)
                  /\ \A u \in DOMAIN tickets' : u # t => tickets'[u] = tickets[u]
        /\ call'.op = "update_ticket_status" =>
             /\ \A s \in Admins, t \in DOMAIN tickets, st \in Valid :
                  update_ticket_status(s, t, st)
                  => /\ call'.code = 200
                     /\ tickets' = [tickets EXCEPT ![t].status = st]
             /\ \/ Refused(403)
                \/ ~ \E s \in Tokens \ Admins, t \in TicketIds, st \in TicketStatusInputs :
                       update_ticket_status(s, t, st)
             /\ \/ Refused(400)
                \/ ~ \E s \in Admins, t \in TicketIds, st \in TicketStatusInputs \ Valid :
                       update_ticket_status(s, t, st)
             /\ \/ Refused(404)
                \/ ~ \E s \in Admins, t \in TicketIds \ DOMAIN tickets,
                        st \in TicketStatusInputs \cap Valid :
                       update_ticket_status(s, t, st)
    ]_vars

\* an admin has just resolved a ticket, and the call that sets it back to
\* open can follow
C11_Witness ==
  /\ call.op = "update_ticket_status" /\ call.code = 200
  /\ tickets[call.out].status = "resolved"
  /\ ENABLED (/\ \E s \in Tokens : update_ticket_status(s, call.out, "open")
              /\ call'.code = 200
              /\ tickets'[call.out].status = "open")

\* the number of open tickets assigned to a
OpenLoad(a) ==
  Cardinality({t \in DOMAIN tickets :
                 tickets[t].assigned_admin_id = a /\ tickets[t].status = "open"})

\* C12: when the ticket-creating handlers run one after the other, from no
\* ticket and with no update_ticket_status call, the numbers of open
\* tickets of any two admins differ by at most 1.
C12_SequentialBalance ==
  \A a, b \in {u \in DOMAIN users : IsAdmin(users, u)} :
    OpenLoad(a) - OpenLoad(b) <= 1

\* three tickets were created, by the handlers of three different kinds; one
\* admin holds two of them and the other one
C12_Witness ==
  /\ call.op = "upload_additional_documents" /\ call.code = 200
  /\ Len(tickets) = 3
  /\ \E t \in DOMAIN tickets : tickets[t].created_by = "client"
  /\ \E a, b \in {u \in DOMAIN users : IsAdmin(users, u)} :
       OpenLoad(a) = 2 /\ OpenLoad(b) = 1

\* C13: every user register adds has role client, no step changes a user's
\* role or removes a user, so the admins are the two seeded at startup; in
\* every state each ticket's assigned_admin_id is none or the id of an admin
\* or super_admin, and every ticket created after startup has an
\* assigned_admin_id that is not none.
C13_AdminsFixedTicketsAssigned ==
  /\ [](\A t \in DOMAIN tickets :
          \/ tickets[t].assigned_admin_id = None
          \/ IsAdmin(users, tickets[t].assigned_admin_id))
  /\ [](started => {u \in DOMAIN users : IsAdmin(users, u)} = {1, 2})
  /\ [][/\ Len(users') >= Len(users)
        /\ \A u \in DOMAIN users : users'[u].role = users[u].role
        /\ \A u \in DOMAIN users' \ DOMAIN users :
             call'.op = "register" => users'[u].role = "client"
        /\ \A t \in DOMAIN tickets' \ DOMAIN tickets :
             started => tickets'[t].assigned_admin_id # None
       ]_vars

\* a client registered after startup has created a ticket, and it is
\* assigned to one of the seeded admins
C13_Witness ==
  /\ call.op = "create_ticket" /\ call.code = 200
  /\ Len(users) = 3 /\ users[3].role = "client"
  /\ tickets[call.out].owner_id = 3
  /\ tickets[call.out].assigned_admin_id \in {1, 2}

\* C14: in every state each application's status is Pending, Approved or
\* Rejected and each ticket's status is open, in_progress or resolved; an
\* application starts Pending and a ticket starts open; so total - approved
\* - rejected is never negative and the pending value public_stats reports
\* is the number of applications whose status is Pending.
C14_StatusDomains ==
  /\ [](\A a \in DOMAIN applications :
          applications[a].status \in {"Pending", "Approved", "Rejected"})
  /\ [](\A t \in DOMAIN tickets :
          tickets[t].status \in {"open", "in_progress", "resolved"})
  /\ [](Len(applications) - NumberWithStatus("Approved")
          - NumberWithStatus("Rejected") >= 0)
  /\ [](call.op = "public_stats" => call.stats.pending = NumberWithStatus("Pending"))
  /\ [][/\ \A a \in DOMAIN applications' \ DOMAIN applications :
             applications'[a].status = "Pending"
        /\ \A t \in DOMAIN tickets' \ DOMAIN tickets :
             tickets'[t].status = "open"
       ]_vars

\* the statistics were read while the only application was pending and a
\* ticket was in progress: one pending application is reported
C14_Witness ==
  /\ call.op = "public_stats"
  /\ Len(applications) = 1 /\ applications[1].status = "Pending"
  /\ \E t \in DOMAIN tickets : tickets[t].status = "in_progress"
  /\ call.stats.total = 1 /\ call.stats.pending = 1
====
